---- MODULE Spec2Model ----
(***************************************************************************)
(* Football_Odds_Breakdown: the strategy engine.                           *)
(*   advanced_simulate.py  batch backtester (run_simulation)               *)
(*   simulate_live.py      live runner (main_loop)                         *)
(*                                                                         *)
(* Numbers.  The program computes with Python floats; the model computes   *)
(* exactly.  A price is held as an integer number of 1/(100*Scale): the    *)
(* cents of the input times Scale, where Scale is a power of the           *)
(* denominator of the smoothing factors, large enough for every smoothing  *)
(* step of a bounded run to stay an integer.  Fractions (alpha,            *)
(* fall_fraction, halftime_fraction) are pairs <<numerator, denominator>>. *)
(* The ratio return of the batch backtester is a reduced fraction.         *)
(***************************************************************************)
EXTENDS Integers, Sequences, FiniteSets, TLC

VARIABLES
    \* ---- simulate_position (advanced_simulate.py), one call -------------
    params,         \* the arguments of run_simulation
    data,           \* the file's records: price_cents or None
    prices,         \* line 48
    smoothed_full,  \* lines 55-60
    start_price,    \* line 62
    max_gain,       \* line 67
    sell_price,     \* line 68
    halftime_index, \* line 69
    idx,            \* the loop index of line 71 (0-based)
    pc,             \* where the call stands
    ret             \* the value returned

batchVars == <<params, data, prices, smoothed_full, start_price, max_gain,
               sell_price, halftime_index, idx, pc, ret>>

VARIABLES
    \* ---- simulate_live.py ---------------------------------------------
    files,          \* ACTIVE_FOLDER: ticker -> the lines of <ticker>.jsonl
    smoothed,       \* line 23
    price_history,  \* line 24
    active_bets,    \* line 25
    sold_games,     \* line 26
    live_bankroll,  \* line 27, `bankroll`
    lpc,            \* where main_loop stands
    ticks,          \* iterations of the while loop so far
    now,            \* time.time() as line 207 last read it
    last_display,   \* line 196
    dashboard,      \* what build_and_print_dashboard last printed
    lines_seen      \* history: ticker -> the lines its file had when the
                    \* runner last read it (the program keeps no such record)

liveVars == <<files, smoothed, price_history, active_bets, sold_games,
              live_bankroll, lpc, ticks, now, last_display, dashboard,
              lines_seen>>

VARIABLES
    \* ---- run_simulation (advanced_simulate.py) -------------------------
    run_params,     \* the arguments of this run
    filter_folder,  \* FILTER_FOLDER: entry -> is it a directory, its files
    side_data,      \* what the files hold: side -> records
    unparseable,    \* the sides whose files json.load cannot parse
    week_queue,     \* sorted(os.listdir(FILTER_FOLDER)) still to visit
    week_name,      \* line 98
    game_pairs,     \* line 103, the games of the week still to process
    processed,      \* the games in the order they were processed
    bankroll,       \* line 36
    rpc             \* where run_simulation stands

runVars == <<run_params, filter_folder, side_data, unparseable, week_queue, week_name,
             game_pairs, processed, bankroll, rpc>>

VARIABLES
    \* ---- the smoother alone ----------------------------------------------
    smoother_alpha, \* alpha as the decimal literal <<numerator, denominator>>
    smoother_cents, \* the price of the market, in cents
    fed,            \* the prices fed so far, in cents
    closure_last,   \* `last` of incremental_ema_smooth, line 15
    live_prev,      \* smoothed[ticker] as ewma_update is given it
    updates         \* updates made so far

smoothVars == <<smoother_alpha, smoother_cents, fed, closure_last, live_prev,
                updates>>

VARIABLES
    \* ---- super_checker_full.py ----------------------------------------
    grid,           \* lines 18-22: the values of each parameter range
    scores,         \* what run_simulation does for each combination: the
                    \* bankroll it returns, or Raised
    cpu_count,      \* multiprocessing.cpu_count()
    param_combos,   \* line 24
    total_combos,   \* line 32
    num_cores,      \* line 58
    chunk_size,     \* line 59
    chunks,         \* line 60
    pending,        \* the chunks imap_unordered has not yet yielded
    all_results,    \* line 65
    completed,      \* line 66
    best_so_far,    \* line 75, as last printed
    csv,            \* the rows of sweep_ema_results.csv
    best,           \* line 88
    spc             \* where the script stands

sweepVars == <<grid, scores, cpu_count, param_combos, total_combos, num_cores,
               chunk_size, chunks, pending, all_results, completed,
               best_so_far, csv, best, spc>>

vars == <<batchVars, liveVars, runVars, smoothVars, sweepVars>>

----------------------------------------------------------------------------
(* Bounds and input sets *)

\* longest price series of one market file
MaxLen == 4

\* iterations of main_loop's while loop that are followed
MaxTicks == 3

\* lines one .jsonl file can hold
MaxFileLen == 3

\* updates of the smoother that are followed when it is fed alone
MaxUpdates == 3

\* the most processors cpu_count() reports
MaxCpus == 4

\* 2 is the denominator of every smoothing factor (Alphas, ALPHA); a run
\* smooths a price at most MaxLen (batch) or MaxTicks (live) times
Scale == 2 ^ ((IF MaxLen > MaxTicks THEN MaxLen ELSE MaxTicks) + 1)

\* Python's None; every number the program stores where None may stand is >= 0
None == -1

\* price_cents values of the input records
PriceCents == {0, 14, 20, 40}

\* (min_start, max_start) in hundredths
Bands == {<<0, 40>>, <<14, 40>>, <<15, 39>>}

\* gain_threshold in hundredths
GainThresholds == {3}

FallFractions == {<<81, 100>>}

HalftimeFractions == {<<1, 2>>, <<1, 1>>}

\* ema_alpha
Alphas == {<<1, 2>>, <<1, 1>>}

SeqsUpTo(S, n) == UNION {[1..k -> S] : k \in 0..n}

DataSet == SeqsUpTo(PriceCents \cup {None}, MaxLen)

ParamSet ==
    {[min_start |-> b[1] * Scale, max_start |-> b[2] * Scale,
      gain_threshold |-> g * Scale, fall_fraction |-> f,
      halftime_fraction |-> h, ema_alpha |-> a] :
        b \in Bands, g \in GainThresholds, f \in FallFractions,
        h \in HalftimeFractions, a \in Alphas}

----------------------------------------------------------------------------
(* Exact fractions *)

RECURSIVE GCD(_, _)
GCD(a, b) == IF b = 0 THEN a ELSE GCD(b, a % b)

Abs(x) == IF x < 0 THEN -x ELSE x

\* n/d reduced, d > 0
Rat(n, d) ==
    LET g == GCD(Abs(n), Abs(d))
        s == IF d < 0 THEN -1 ELSE 1
    IN  <<(s * n) \div g, (s * d) \div g>>

RatAdd(x, y) == Rat(x[1] * y[2] + y[1] * x[2], x[2] * y[2])

Zero == Rat(0, 1)

----------------------------------------------------------------------------
(* Python floats.  A float is an IEEE-754 double: a mantissa of            *)
(* MantissaBits bits and a binary exponent, every operation rounded to the *)
(* nearest double, ties to even.  The state machines below compute         *)
(* exactly; the smoother alone is also modelled in doubles, where its      *)
(* rounding can be seen.  A natural number too wide for one integer is the *)
(* sequence of its digits in base Base, lowest first, without leading      *)
(* zeros.  All floats here are >= 0, normal and finite.                    *)

MantissaBits == 53

Base == 2 ^ 15

RECURSIVE BigNorm(_)
BigNorm(a) ==
    IF a = <<>> THEN a
    ELSE IF a[Len(a)] = 0 THEN BigNorm(SubSeq(a, 1, Len(a) - 1)) ELSE a

RECURSIVE BigFromInt(_)
BigFromInt(n) == IF n = 0 THEN <<>> ELSE <<n % Base>> \o BigFromInt(n \div Base)

Limb(a, i) == IF i <= Len(a) THEN a[i] ELSE 0

RECURSIVE BigAddFrom(_, _, _, _)
BigAddFrom(a, b, i, carry) ==
    IF i > Len(a) /\ i > Len(b)
    THEN IF carry = 0 THEN <<>> ELSE <<carry>>
    ELSE LET s == Limb(a, i) + Limb(b, i) + carry
         IN  <<s % Base>> \o BigAddFrom(a, b, i + 1, s \div Base)

BigAdd(a, b) == BigAddFrom(a, b, 1, 0)

RECURSIVE BigSubFrom(_, _, _, _)
BigSubFrom(a, b, i, borrow) ==
    IF i > Len(a) THEN <<>>
    ELSE LET s == a[i] - Limb(b, i) - borrow
         IN  IF s < 0
             THEN <<s + Base>> \o BigSubFrom(a, b, i + 1, 1)
             ELSE <<s>> \o BigSubFrom(a, b, i + 1, 0)

\* a - b, for a >= b
BigSub(a, b) == BigNorm(BigSubFrom(a, b, 1, 0))

RECURSIVE BigMulSmallFrom(_, _, _, _)
BigMulSmallFrom(a, s, i, carry) ==
    IF i > Len(a)
    THEN IF carry = 0 THEN <<>> ELSE <<carry>>
    ELSE LET v == a[i] * s + carry
         IN  <<v % Base>> \o BigMulSmallFrom(a, s, i + 1, v \div Base)

\* a * s, for 0 <= s < Base
BigMulSmall(a, s) == IF s = 0 THEN <<>> ELSE BigMulSmallFrom(a, s, 1, 0)

BigShlLimbs(a, n) == IF a = <<>> THEN a ELSE [i \in 1..n |-> 0] \o a

RECURSIVE BigMulFrom(_, _, _)
BigMulFrom(a, b, j) ==
    IF j > Len(b) THEN <<>>
    ELSE BigAdd(BigShlLimbs(BigMulSmall(a, b[j]), j - 1), BigMulFrom(a, b, j + 1))

BigMul(a, b) == BigMulFrom(a, b, 1)

RECURSIVE BigCmpFrom(_, _, _)
BigCmpFrom(a, b, i) ==
    IF i = 0 THEN 0
    ELSE IF a[i] < b[i] THEN -1
    ELSE IF a[i] > b[i] THEN 1
    ELSE BigCmpFrom(a, b, i - 1)

\* -1, 0, 1 as a < b, a = b, a > b
BigCmp(a, b) ==
    IF Len(a) < Len(b) THEN -1
    ELSE IF Len(a) > Len(b) THEN 1
    ELSE BigCmpFrom(a, b, Len(a))

\* a * 2^n
BigShl(a, n) == BigShlLimbs(BigMulSmall(a, 2 ^ (n % 15)), n \div 15)

RECURSIVE BigDivSmallFrom(_, _, _, _)
BigDivSmallFrom(a, d, i, rem) ==
    IF i = 0 THEN [q |-> <<>>, r |-> rem]
    ELSE LET cur == rem * Base + a[i]
             rest == BigDivSmallFrom(a, d, i - 1, cur % d)
         IN  [q |-> Append(rest.q, cur \div d), r |-> rest.r]

\* quotient and remainder of a by d, for 0 < d < Base
BigDivSmall(a, d) ==
    LET x == BigDivSmallFrom(a, d, Len(a), 0)
    IN  [q |-> BigNorm(x.q), r |-> x.r]

\* floor(a / 2^n)
BigShr(a, n) ==
    IF n \div 15 >= Len(a) THEN <<>>
    ELSE BigDivSmall(SubSeq(a, n \div 15 + 1, Len(a)), 2 ^ (n % 15)).q

RECURSIVE BitLenSmall(_)
BitLenSmall(n) == IF n = 0 THEN 0 ELSE 1 + BitLenSmall(n \div 2)

BitLen(a) == IF a = <<>> THEN 0 ELSE 15 * (Len(a) - 1) + BitLenSmall(a[Len(a)])

BigOdd(a) == a # <<>> /\ a[1] % 2 = 1

BigOne == <<1>>

\* the float 0.0
FloatZero == [m |-> <<>>, e |-> 0]

\* the double nearest to x * 2^e, ties to even: mantissa m of MantissaBits
\* bits, value m * 2^e
RoundToDouble(x, e) ==
    IF x = <<>> THEN FloatZero
    ELSE LET len == BitLen(x)
         IN  IF len <= MantissaBits
             THEN [m |-> BigShl(x, MantissaBits - len), e |-> e - (MantissaBits - len)]
             ELSE LET s == len - MantissaBits
                      q == BigShr(x, s)
                      r == BigSub(x, BigShl(q, s))
                      half == BigShl(BigOne, s - 1)
                      c == BigCmp(r, half)
                      up == c = 1 \/ (c = 0 /\ BigOdd(q))
                      q1 == IF up THEN BigAdd(q, BigOne) ELSE q
                  IN  IF BitLen(q1) > MantissaBits
                      THEN [m |-> BigShr(q1, 1), e |-> e + s + 1]
                      ELSE [m |-> q1, e |-> e + s]

\* n / d in floats, for integers n >= 0 and 0 < d < Base; also the float a
\* decimal literal n/d denotes
FloatDiv(n, d) ==
    LET x == BigDivSmall(BigShl(BigFromInt(n), 75), d)
        sticky == IF x.r = 0 THEN <<>> ELSE BigOne
    IN  RoundToDouble(BigAdd(BigShl(x.q, 1), sticky), -76)

FloatMul(a, b) == RoundToDouble(BigMul(a.m, b.m), a.e + b.e)

FloatAdd(a, b) ==
    IF a.m = <<>> THEN b
    ELSE IF b.m = <<>> THEN a
    ELSE LET e == IF a.e < b.e THEN a.e ELSE b.e
         IN  RoundToDouble(BigAdd(BigShl(a.m, a.e - e), BigShl(b.m, b.e - e)), e)

\* a - b in floats, for a >= b
FloatSub(a, b) ==
    IF b.m = <<>> THEN a
    ELSE LET e == IF a.e < b.e THEN a.e ELSE b.e
         IN  RoundToDouble(BigSub(BigShl(a.m, a.e - e), BigShl(b.m, b.e - e)), e)

\* the float 1.0, and (1 - alpha) of lines 22 and 53
FloatOne == FloatDiv(1, 1)

\* |a - b| as a multiple of 2^e, for floats a, b whose exponents are >= e
FloatDistance(a, b, e) ==
    LET x == BigShl(a.m, a.e - e)
        y == BigShl(b.m, b.e - e)
    IN  IF BigCmp(x, y) >= 0 THEN BigSub(x, y) ELSE BigSub(y, x)

\* a float that is not there: None
NoFloat == [m |-> <<>>, e |-> 1]

\* SmoothNextDouble without the bootstrap on the first sample: `last` starts
\* at 0.0
SmoothNextDoubleFromZero(last, new_point, alpha) ==
    FloatAdd(FloatMul(alpha, new_point),
             FloatMul(FloatSub(FloatOne, alpha),
                      IF last = NoFloat THEN FloatZero ELSE last))

\* SmoothNextDouble without the weight of `last`: alpha * new_point + last
SmoothNextDoubleNoComplement(last, new_point, alpha) ==
    IF last = NoFloat
    THEN new_point
    ELSE FloatAdd(FloatMul(alpha, new_point), last)

\* smooth_next in doubles: alpha * new_point + (1 - alpha) * last
SmoothNextDouble(last, new_point, alpha) ==
    IF last = NoFloat
    THEN new_point
    ELSE FloatAdd(FloatMul(alpha, new_point),
                  FloatMul(FloatSub(FloatOne, alpha), last))

\* EwmaUpdateDouble with the product multiplied out:
\* (alpha * value + prev) - alpha * prev
EwmaUpdateDoubleExpanded(prev, value, alpha) ==
    IF prev = NoFloat
    THEN value
    ELSE FloatSub(FloatAdd(FloatMul(alpha, value), prev), FloatMul(alpha, prev))

\* ewma_update in doubles: alpha * float(value) + (1.0 - alpha) * float(prev)
EwmaUpdateDouble(prev, value, alpha) ==
    IF prev = NoFloat
    THEN value
    ELSE FloatAdd(FloatMul(alpha, value),
                  FloatMul(FloatSub(FloatOne, alpha), prev))

----------------------------------------------------------------------------
(* advanced_simulate.py *)

FLAT_BET_AMOUNT == 2

START_BANKROLL == 20

\* SmoothNext without the bootstrap: the first sample is smoothed against 0
SmoothNextFromZero(last, new_point, alpha) ==
    (alpha[1] * new_point + (alpha[2] - alpha[1]) * (IF last = None THEN 0 ELSE last))
        \div alpha[2]

\* smooth_next: one EMA step on the closure's `last`
SmoothNext(last, new_point, alpha) ==
    IF last = None
    THEN new_point
    ELSE (alpha[1] * new_point + (alpha[2] - alpha[1]) * last) \div alpha[2]

\* line 48: cents to price, None kept
ToPrices(d) == [i \in 1..Len(d) |-> IF d[i] # None THEN d[i] * Scale ELSE None]

\* ValidPrices that keeps the null prices
ValidPricesWithNulls(ps) == ps

\* line 49
ValidPrices(ps) == SelectSeq(ps, LAMBDA p : p # None)

\* SmoothFrom with a smoother that forgets its state at a null price
RECURSIVE SmoothFromResetOnNull(_, _, _, _)
SmoothFromResetOnNull(ps, i, last, alpha) ==
    IF i > Len(ps) THEN <<>>
    ELSE IF ps[i] = None
         THEN <<None>> \o SmoothFromResetOnNull(ps, i + 1, None, alpha)
         ELSE LET s == SmoothNext(last, ps[i], alpha)
              IN  <<s>> \o SmoothFromResetOnNull(ps, i + 1, s, alpha)

\* lines 54-60: the smoother run over the series, None where the price is None
RECURSIVE SmoothFrom(_, _, _, _)
SmoothFrom(ps, i, last, alpha) ==
    IF i > Len(ps) THEN <<>>
    ELSE IF ps[i] = None
         THEN <<None>> \o SmoothFrom(ps, i + 1, last, alpha)
         ELSE LET s == SmoothNext(last, ps[i], alpha)
              IN  <<s>> \o SmoothFrom(ps, i + 1, s, alpha)

SmoothedFull(ps, alpha) == SmoothFrom(ps, 1, None, alpha)

\* line 62: next((p for p in smoothed_full if p is not None), None)
FirstDefined(s) ==
    LET v == SelectSeq(s, LAMBDA p : p # None)
    IN  IF v = <<>> THEN None ELSE v[1]

\* InBand without the lower bound
InBandNoMin(sp, p) == sp <= p.max_start

\* InBand with max_start excluded
InBandBelowMax(sp, p) == p.min_start <= sp /\ sp < p.max_start

\* line 63: the entry band, both bounds inclusive
InBand(sp, p) == p.min_start <= sp /\ sp <= p.max_start

\* HalftimeIndex rounded up instead of truncated
HalftimeIndexCeil(n, h) == (n * h[1] + h[2] - 1) \div h[2]

\* line 69: int(len(smoothed_full) * halftime_fraction)
HalftimeIndex(n, h) == (n * h[1]) \div h[2]

Max2(a, b) == IF a >= b THEN a ELSE b

\* PeakDrop that needs max_gain above the threshold, not at it
PeakDropAboveThreshold(mg, gain, p) ==
    mg > p.gain_threshold /\ gain < p.gain_threshold

\* line 82
PeakDrop(mg, gain, p) == mg >= p.gain_threshold /\ gain < p.gain_threshold

\* line 85
Retracement(mg, gain, p) ==
    /\ mg > p.gain_threshold
    /\ gain * p.fall_fraction[2] <= mg * p.fall_fraction[1]

\* Stagnation counting the ticks from 1
StagnationOneBased(i, hi, smooth_price, start, p) ==
    i + 1 = hi /\ smooth_price < start + p.gain_threshold

\* Stagnation without its price condition
StagnationAtIndexOnly(i, hi, smooth_price, start, p) == i = hi

\* line 88
Stagnation(i, hi, smooth_price, start, p) ==
    i = hi /\ smooth_price < start + p.gain_threshold

\* TriggerSellPrice selling at the smoothed price
TriggerSellSmoothed(ps, sm, i) == sm[i + 1]

\* the price sold at when a trigger fires at index i: lines 83, 86, 89
TriggerSellPrice(ps, sm, i) == ps[i + 1]

\* LoopBody without the break statements: a trigger sets sell_price and the
\* loop goes on
LoopBodyNoBreak(L, ps, sm, start, hi, p) ==
    LET smooth_price == sm[L.idx + 1]
        real_price == ps[L.idx + 1]
    IN  IF smooth_price = None \/ real_price = None
        THEN [L EXCEPT !.idx = @ + 1]
        ELSE LET gain == smooth_price - start
                 mg == Max2(L.max_gain, gain)
             IN  IF \/ PeakDrop(mg, gain, p)
                    \/ Retracement(mg, gain, p)
                    \/ Stagnation(L.idx, hi, smooth_price, start, p)
                 THEN [idx |-> L.idx + 1, max_gain |-> mg,
                       sell_price |-> ps[L.idx + 1], brk |-> FALSE]
                 ELSE [idx |-> L.idx + 1, max_gain |-> mg,
                       sell_price |-> L.sell_price, brk |-> FALSE]

\* lines 71-90: one iteration of the loop at index L.idx.  brk: the loop broke.
LoopBody(L, ps, sm, start, hi, p) ==
    LET smooth_price == sm[L.idx + 1]
        real_price == ps[L.idx + 1]
    IN  IF smooth_price = None \/ real_price = None
        THEN [L EXCEPT !.idx = @ + 1]
        ELSE LET gain == smooth_price - start
                 mg == Max2(L.max_gain, gain)
             IN  IF \/ PeakDrop(mg, gain, p)
                    \/ Retracement(mg, gain, p)
                    \/ Stagnation(L.idx, hi, smooth_price, start, p)
                 THEN [idx |-> L.idx, max_gain |-> mg,
                       sell_price |-> TriggerSellPrice(ps, sm, L.idx),
                       brk |-> TRUE]
                 ELSE [idx |-> L.idx + 1, max_gain |-> mg,
                       sell_price |-> L.sell_price, brk |-> FALSE]

\* LastPriceOr without reversed(): the first price of the series
FirstPriceOr(ps, dflt) ==
    LET v == SelectSeq(ps, LAMBDA p : p # None)
    IN  IF v = <<>> THEN dflt ELSE v[1]

\* line 93: next((p for p in reversed(prices) if p is not None), start_price)
LastPriceOr(ps, dflt) ==
    LET v == ValidPrices(ps)
    IN  IF v = <<>> THEN dflt ELSE v[Len(v)]

\* what stands for the ZeroDivisionError of line 95
ZeroDivision == <<0, 0>>

\* line 95: stake * ((sell_price / start_price) - 1); the division raises
\* when start_price is 0
RatioReturn(stake, sell, start) ==
    IF start = 0 THEN ZeroDivision ELSE Rat(stake * (sell - start), start)


----------------------------------------------------------------------------
(* simulate_live.py *)

Tickers == {"t1", "t2"}

\* the "price" of a line already in a file at startup (None: a line without)
StartLines == {13, 14, 77, 78, None}

\* the "price" of a line the collector appends while the runner runs
AppendLines == {40, 90}

\* seconds from one reading of the clock (line 207) to the next: the second
\* of sleep of line 212 and what the work of a tick takes
TickSeconds == {1, 9}

BET_AMOUNT == 10

MIN_START == 14 * Scale

MAX_START == 77 * Scale

GAIN_THRESHOLD == 3 * Scale

FALL_FRACTION == <<81, 100>>

HISTORY_LENGTH == 300

DISPLAY_INTERVAL == 10

\* time.time() when main_loop starts: seconds since 1970, far more than
\* DISPLAY_INTERVAL
LaunchTime == 100 * DISPLAY_INTERVAL

\* line 68.  compute_alpha_from_sigma_minutes clips alpha to [0.001, 0.5];
\* the runner is followed at the upper end of that range.
ALPHA == <<1, 2>>

\* the value a dict holds for a key it does not have (a profit of
\* sold_games is a multiple of BET_AMOUNT, so never this value)
Absent == None

Keys(d) == {k \in DOMAIN d : d[k] # Absent}

\* lines 30-47: the last line with a price, in price units; None if there is none
RECURSIVE LoadLastFrom(_, _, _)
LoadLastFrom(lines, i, last_price) ==
    IF i > Len(lines) THEN last_price
    ELSE LoadLastFrom(lines, i + 1,
                      IF lines[i] # None THEN lines[i] * Scale ELSE last_price)

load_last_price_from_jsonl(f) ==
    IF ~f.exists THEN None ELSE LoadLastFrom(f.lines, 1, None)

\* lines 49-53
ewma_update(prev, value, alpha) ==
    IF prev = None
    THEN value
    ELSE (alpha[1] * value + (alpha[2] - alpha[1]) * prev) \div alpha[2]

\* deque(maxlen=HISTORY_LENGTH).append
DequeAppend(q, x) ==
    IF Len(q) = HISTORY_LENGTH THEN Append(Tail(q), x) ELSE Append(q, x)

\* line 92
InStartRange(s_price) == MIN_START <= s_price /\ s_price <= MAX_START

\* line 93
NewBet(s_price) == [bet |-> BET_AMOUNT, start_price |-> s_price, max_gain |-> 0]

NoBet == [bet |-> 0, start_price |-> None, max_gain |-> 0]

\* LiveMaxGain assigning the gain whether or not it is a new maximum
LiveMaxGainAssign(bet, current) == current - bet.start_price

\* lines 136-138
LiveMaxGain(bet, current) ==
    LET gain == current - bet.start_price
    IN  IF gain > bet.max_gain THEN gain ELSE bet.max_gain

\* LiveSell that sells below the threshold whether or not max_gain reached it
LiveSellBelowThreshold(bet, current) ==
    LET gain == current - bet.start_price
        mg == LiveMaxGain(bet, current)
    IN  IF gain < GAIN_THRESHOLD
        THEN TRUE
        ELSE mg > GAIN_THRESHOLD
             /\ gain * FALL_FRACTION[2] <= mg * FALL_FRACTION[1]

\* lines 141-145
LiveSell(bet, current) ==
    LET gain == current - bet.start_price
        mg == LiveMaxGain(bet, current)
    IN  IF mg >= GAIN_THRESHOLD /\ gain < GAIN_THRESHOLD
        THEN TRUE
        ELSE mg > GAIN_THRESHOLD
             /\ gain * FALL_FRACTION[2] <= mg * FALL_FRACTION[1]

\* line 149: profit = bet["bet"] * (current - start)
LiveProfit(bet, current) == bet.bet * (current - bet.start_price)

\* lines 202-204: the tickers of active_bets that evaluate_sells_for_ticker
\* sells, given the smoothed prices of this tick
Selling(bets, sm) ==
    {t \in Tickers : /\ bets[t].start_price # None
                     /\ sm[t] # Absent
                     /\ LiveSell(bets[t], sm[t])}

\* BetsAfterSells that also places a bet on a ticker without one whose
\* smoothed price is in the entry range
BetsAfterSellsAndEntries(bets, sm) ==
    [t \in Tickers |->
        IF t \in Selling(bets, sm) THEN NoBet
        ELSE IF bets[t].start_price # None /\ sm[t] # Absent
             THEN [bets[t] EXCEPT !.max_gain = LiveMaxGain(bets[t], sm[t])]
             ELSE IF sm[t] # Absent /\ InStartRange(sm[t])
                  THEN NewBet(sm[t])
                  ELSE bets[t]]

\* BetsAfterSells without the del of line 152: a sold ticker keeps its bet
BetsAfterSellsKeepSold(bets, sm) ==
    [t \in Tickers |->
        IF bets[t].start_price # None /\ sm[t] # Absent
        THEN [bets[t] EXCEPT !.max_gain = LiveMaxGain(bets[t], sm[t])]
        ELSE bets[t]]

\* lines 127-155 for every key of active_bets: active_bets after the tick
BetsAfterSells(bets, sm) ==
    [t \in Tickers |->
        IF t \in Selling(bets, sm) THEN NoBet
        ELSE IF bets[t].start_price # None /\ sm[t] # Absent
             THEN [bets[t] EXCEPT !.max_gain = LiveMaxGain(bets[t], sm[t])]
             ELSE bets[t]]

\* RenderDue without the refresh on a sale
RenderDueByTimeOnly(sell_happened, t, last) == (t - last) >= DISPLAY_INTERVAL

\* line 208
RenderDue(sell_happened, t, last) ==
    sell_happened \/ (t - last) >= DISPLAY_INTERVAL

\* lines 157-189: the rows and the total build_and_print_dashboard prints
\* (amounts unrounded)
Dashboard(sm, bets, sold, total) ==
    [rows |-> [t \in {u \in Tickers : sm[u] # Absent} |->
                 [cur |-> sm[t],
                  max_gain |-> IF bets[t].start_price # None
                               THEN bets[t].max_gain ELSE Absent,
                  pos |-> IF bets[t].start_price # None
                          THEN bets[t].bet ELSE Absent,
                  unrealized |-> IF bets[t].start_price # None
                                 THEN bets[t].bet * (sm[t] - bets[t].start_price)
                                 ELSE Absent,
                  realized |-> sold[t]]],
     bankroll |-> total]

\* nothing printed yet
NoDashboard == [rows |-> [t \in {} |-> 0], bankroll |-> 0]

RECURSIVE SumOver(_, _)
SumOver(S, f) ==
    IF S = {} THEN 0
    ELSE LET x == CHOOSE y \in S : TRUE IN f[x] + SumOver(S \ {x}, f)

Last(q) == q[Len(q)]

FileSet(lineSet, n) ==
    {[exists |-> FALSE, lines |-> <<>>]}
        \cup {[exists |-> TRUE, lines |-> l] : l \in SeqsUpTo(lineSet, n)}

NoDir == [isdir |-> FALSE, files |-> {}]

RunIdle ==
    /\ run_params = [min_start |-> 0, max_start |-> 0, gain_threshold |-> 0,
                     fall_fraction |-> <<0, 1>>, halftime_fraction |-> <<0, 1>>,
                     ema_alpha |-> <<1, 1>>]
    /\ filter_folder = [w \in {} |-> NoDir]
    /\ side_data = [x \in {} |-> <<>>]
    /\ unparseable = {}
    /\ week_queue = <<>>
    /\ week_name = ""
    /\ game_pairs = [k \in {} |-> {}]
    /\ processed = <<>>
    /\ bankroll = Zero
    /\ rpc = "idle"

\* no row, no file
NoRow == <<>>

NoCsv == <<NoRow>>

\* the sweep is not running
SweepIdle ==
    /\ grid = [min_starts |-> <<>>, max_starts |-> <<>>,
               gain_thresholds |-> <<>>, fall_fractions |-> <<>>,
               alphas |-> <<>>]
    /\ scores = [c \in {} |-> 0]
    /\ cpu_count = 1
    /\ param_combos = <<>>
    /\ total_combos = 0
    /\ num_cores = 1
    /\ chunk_size = 0
    /\ chunks = <<>>
    /\ pending = {}
    /\ all_results = <<>>
    /\ completed = 0
    /\ best_so_far = NoRow
    /\ csv = NoCsv
    /\ best = NoRow
    /\ spc = "idle"

\* the smoother is not run alone
SmoothIdle ==
    /\ smoother_alpha = <<1, 1>>
    /\ smoother_cents = 0
    /\ fed = <<>>
    /\ closure_last = NoFloat
    /\ live_prev = NoFloat
    /\ updates = 0

\* the backtester is not running
BatchIdle ==
    /\ params = [min_start |-> 0, max_start |-> 0, gain_threshold |-> 0,
                 fall_fraction |-> <<0, 1>>, halftime_fraction |-> <<0, 1>>,
                 ema_alpha |-> <<1, 1>>]
    /\ data = <<>>
    /\ prices = <<>>
    /\ smoothed_full = <<>>
    /\ start_price = None
    /\ max_gain = 0
    /\ sell_price = None
    /\ halftime_index = 0
    /\ idx = 0
    /\ pc = "idle"
    /\ ret = None

\* the live runner is not running
LiveIdle ==
    /\ files = [t \in Tickers |-> [exists |-> FALSE, lines |-> <<>>]]
    /\ smoothed = [t \in Tickers |-> Absent]
    /\ price_history = [t \in Tickers |-> <<>>]
    /\ active_bets = [t \in Tickers |-> NoBet]
    /\ sold_games = [t \in Tickers |-> Absent]
    /\ live_bankroll = 0
    /\ lpc = "idle"
    /\ ticks = 0
    /\ now = 0
    /\ last_display = 0
    /\ dashboard = NoDashboard
    /\ lines_seen = [t \in Tickers |-> 0]

InitLive ==
    /\ BatchIdle
    /\ RunIdle
    /\ SmoothIdle
    /\ SweepIdle
    /\ files \in [Tickers -> FileSet(StartLines, 1)]
    /\ smoothed = [t \in Tickers |-> Absent]
    /\ price_history = [t \in Tickers |-> <<>>]
    /\ active_bets = [t \in Tickers |-> NoBet]
    /\ sold_games = [t \in Tickers |-> Absent]
    /\ live_bankroll = 0
    /\ lpc = "startup"
    /\ ticks = 0
    /\ now = LaunchTime
    /\ last_display = 0
    /\ dashboard = NoDashboard
    /\ lines_seen = [t \in Tickers |-> 0]

\* the tickers os.listdir(ACTIVE_FOLDER) yields whose file has a price
Priced == {t \in Tickers : load_last_price_from_jsonl(files[t]) # None}

\* lines 71-94
place_initial_bets ==
    /\ lpc = "startup"
    /\ smoothed' = [t \in Tickers |->
                      IF t \in Priced
                      THEN load_last_price_from_jsonl(files[t])
                      ELSE smoothed[t]]
    /\ price_history' = [t \in Tickers |->
                      IF t \in Priced
                      THEN DequeAppend(price_history[t],
                                       load_last_price_from_jsonl(files[t]))
                      ELSE price_history[t]]
    /\ active_bets' = [t \in Tickers |->
                      IF smoothed'[t] # Absent /\ InStartRange(smoothed'[t])
                      THEN NewBet(smoothed'[t])
                      ELSE active_bets[t]]
    /\ lpc' = "loop"
    /\ lines_seen' = [t \in Tickers |-> Len(files[t].lines)]
    /\ UNCHANGED <<files, sold_games, live_bankroll, ticks, now, last_display,
                   dashboard>>
    /\ UNCHANGED <<batchVars, runVars, smoothVars, sweepVars>>

Active == {t \in Tickers : active_bets[t].start_price # None}

Sold == Keys(sold_games)

\* lines 198-212: one iteration of the while loop
Tick ==
    /\ lpc = "loop"
    /\ ticks < MaxTicks
    /\ ticks' = ticks + 1
    \* update_from_live_files, lines 96-119
    /\ smoothed' = [t \in Tickers |->
                      IF t \in Priced
                      THEN ewma_update(smoothed[t],
                                       load_last_price_from_jsonl(files[t]),
                                       ALPHA)
                      ELSE smoothed[t]]
    /\ price_history' = [t \in Tickers |->
                      IF t \in Priced
                      THEN DequeAppend(price_history[t],
                                       load_last_price_from_jsonl(files[t]))
                      ELSE price_history[t]]
    /\ lines_seen' = [t \in Tickers |-> Len(files[t].lines)]
    \* evaluate_sells_for_ticker for every key of active_bets, lines 121-155
    /\ LET selling == Selling(active_bets, smoothed')
           profit == [t \in Tickers |->
                        IF t \in selling
                        THEN LiveProfit(active_bets[t], smoothed'[t])
                        ELSE 0]
       IN  /\ active_bets' = BetsAfterSells(active_bets, smoothed')
           /\ sold_games' = [t \in Tickers |->
                 IF t \in selling THEN profit[t] ELSE sold_games[t]]
           /\ live_bankroll' = live_bankroll + SumOver(selling, profit)
           \* lines 207-210
           /\ \E d \in TickSeconds : now' = now + d
           /\ IF RenderDue(selling # {}, now', last_display)
              THEN /\ dashboard' = Dashboard(smoothed', active_bets',
                                             sold_games', live_bankroll')
                   /\ last_display' = now'
              ELSE UNCHANGED <<dashboard, last_display>>
    /\ UNCHANGED <<files, lpc>>
    /\ UNCHANGED <<batchVars, runVars, smoothVars, sweepVars>>

\* the collector (moniter_games.py) appends a line to a ticker's file,
\* creating the file if there is none
CollectorAppends ==
    /\ lpc = "loop"
    \* no tick that is followed reads what is appended after the last one
    /\ ticks < MaxTicks
    /\ \E t \in Tickers, line \in AppendLines :
          /\ Len(files[t].lines) < MaxFileLen
          \* one line is followed per file between two reads: the runner
          \* uses only the last line of a file that has a price
          /\ Len(files[t].lines) = lines_seen[t]
          /\ files' = [files EXCEPT ![t] =
                          [exists |-> TRUE, lines |-> Append(@.lines, line)]]
    /\ UNCHANGED <<smoothed, price_history, active_bets, sold_games,
                   live_bankroll, lpc, ticks, now, last_display, dashboard,
                   lines_seen>>
    /\ UNCHANGED <<batchVars, runVars, smoothVars, sweepVars>>

\* lines 219-222: KeyboardInterrupt while the loop sleeps (line 212) ends
\* main_loop
Interrupt ==
    /\ lpc = "loop"
    /\ lpc' = "interrupted"
    /\ UNCHANGED <<files, smoothed, price_history, active_bets, sold_games,
                   live_bankroll, ticks, now, last_display, dashboard,
                   lines_seen>>
    /\ UNCHANGED <<batchVars, runVars, smoothVars, sweepVars>>

NextLive ==
    \/ place_initial_bets
    \/ Tick
    \/ CollectorAppends
    \/ Interrupt

----------------------------------------------------------------------------
(* simulate_position as a state machine, one call *)

InitBatch ==
    /\ LiveIdle
    /\ RunIdle
    /\ SmoothIdle
    /\ SweepIdle
    /\ params \in ParamSet
    /\ data \in DataSet
    /\ prices = <<>>
    /\ smoothed_full = <<>>
    /\ start_price = None
    /\ max_gain = 0
    /\ sell_price = None
    /\ halftime_index = 0
    /\ idx = 0
    /\ pc = "parse"
    /\ ret = None

\* lines 48-60
ParseAndSmooth ==
    /\ pc = "parse"
    /\ prices' = ToPrices(data)
    /\ IF ValidPrices(ToPrices(data)) = <<>>
       THEN /\ ret' = Zero
            /\ pc' = "done"
            /\ smoothed_full' = smoothed_full
       ELSE /\ smoothed_full' = SmoothedFull(ToPrices(data), params.ema_alpha)
            /\ pc' = "screen"
            /\ ret' = ret
    /\ UNCHANGED <<params, data, start_price, max_gain, sell_price,
                   halftime_index, idx>>
    /\ UNCHANGED <<liveVars, runVars, smoothVars, sweepVars>>

\* lines 62-69
EntryScreen ==
    /\ pc = "screen"
    /\ start_price' = FirstDefined(smoothed_full)
    /\ IF start_price' = None \/ ~InBand(start_price', params)
       THEN /\ ret' = Zero
            /\ pc' = "done"
            /\ halftime_index' = halftime_index
       ELSE /\ halftime_index' =
                   HalftimeIndex(Len(smoothed_full), params.halftime_fraction)
            /\ pc' = "loop"
            /\ ret' = ret
    /\ UNCHANGED <<params, data, prices, smoothed_full, max_gain, sell_price,
                   idx>>
    /\ UNCHANGED <<liveVars, runVars, smoothVars, sweepVars>>

\* lines 71-90: one iteration
LoopTick ==
    /\ pc = "loop"
    /\ idx < Len(smoothed_full)
    /\ LET L == LoopBody([idx |-> idx, max_gain |-> max_gain,
                          sell_price |-> sell_price, brk |-> FALSE],
                         prices, smoothed_full, start_price, halftime_index,
                         params)
       IN  /\ idx' = L.idx
           /\ max_gain' = L.max_gain
           /\ sell_price' = L.sell_price
           /\ pc' = IF L.brk THEN "after" ELSE "loop"
    /\ UNCHANGED <<params, data, prices, smoothed_full, start_price,
                   halftime_index, ret>>
    /\ UNCHANGED <<liveVars, runVars, smoothVars, sweepVars>>

\* line 71: the series is exhausted
LoopEnd ==
    /\ pc = "loop"
    /\ idx = Len(smoothed_full)
    /\ pc' = "after"
    /\ UNCHANGED <<params, data, prices, smoothed_full, start_price, max_gain,
                   sell_price, halftime_index, idx, ret>>
    /\ UNCHANGED <<liveVars, runVars, smoothVars, sweepVars>>

\* lines 92-95
FallbackAndReturn ==
    /\ pc = "after"
    /\ sell_price' = IF sell_price = None
                     THEN LastPriceOr(prices, start_price)
                     ELSE sell_price
    /\ ret' = RatioReturn(FLAT_BET_AMOUNT, sell_price', start_price)
    /\ pc' = IF ret' = ZeroDivision THEN "raised" ELSE "done"
    /\ UNCHANGED <<params, data, prices, smoothed_full, start_price, max_gain,
                   halftime_index, idx>>
    /\ UNCHANGED <<liveVars, runVars, smoothVars, sweepVars>>

NextBatch ==
    \/ ParseAndSmooth
    \/ EntryScreen
    \/ LoopTick
    \/ LoopEnd
    \/ FallbackAndReturn

SpecBatch == InitBatch /\ [][NextBatch]_vars

SpecLive == InitLive /\ [][NextLive]_vars

----------------------------------------------------------------------------
(* run_simulation *)

\* lines 71-90: the loop run to its end or its break
RECURSIVE RunLoop(_, _, _, _, _, _)
RunLoop(L, ps, sm, start, hi, p) ==
    IF L.brk \/ L.idx >= Len(sm) THEN L
    ELSE RunLoop(LoopBody(L, ps, sm, start, hi, p), ps, sm, start, hi, p)

\* lines 47-95
simulate_position(d, p) ==
    LET ps == ToPrices(d)
    IN  IF ValidPrices(ps) = <<>> THEN Zero
        ELSE LET sm == SmoothedFull(ps, p.ema_alpha)
                 start == FirstDefined(sm)
             IN  IF start = None \/ ~InBand(start, p) THEN Zero
                 ELSE LET hi == HalftimeIndex(Len(sm), p.halftime_fraction)
                          L == RunLoop([idx |-> 0, max_gain |-> 0,
                                        sell_price |-> None, brk |-> FALSE],
                                       ps, sm, start, hi, p)
                          sell == IF L.sell_price = None
                                  THEN LastPriceOr(ps, start)
                                  ELSE L.sell_price
                      IN  RatioReturn(FLAT_BET_AMOUNT, sell, start)

\* A file name is the sequence of its characters, its extension one of them.
FileNames ==
    { <<"g", "-", "a", ".json">>, <<"g", "-", "b", ".json">>,
      <<"g", "-", "c", ".json">>, <<"g", "-", "c", ".txt">>,
      <<"h", "-", "x", "-", "a", ".json">>,
      <<"h", "-", "x", "-", "b", ".json">> }

Sides == {"a", "b", "c"}

\* the entries of FILTER_FOLDER, in sorted order
WeekNames == <<"week1", "week2">>

\* the price series a file may hold
SeriesPool == { <<20, 40, 14>>, <<14, None, 40>> }

\* the sides whose files hold content that is not JSON
UnparseablePool == {{}, {"b"}}

RunParamSet ==
    {q \in ParamSet : /\ q.min_start = 14 * Scale
                      /\ q.halftime_fraction = <<1, 1>>
                      /\ q.ema_alpha = <<1, 2>>}

\* f.endswith(".json")
EndsWithJson(f) == f[Len(f)] = ".json"

\* the place of the last "-" of f, 0 if it has none
LastDash(f) ==
    LET D == {i \in 1..Len(f) : f[i] = "-"}
    IN  IF D = {} THEN 0 ELSE CHOOSE i \in D : \A j \in D : j <= i

\* lines 42-43: f.rsplit("-", 1)[0]
GameKey(f) == IF LastDash(f) = 0 THEN f ELSE SubSeq(f, 1, LastDash(f) - 1)

\* get_game_pairs keeping every key with two files or more
get_game_pairs_two_or_more(folder) ==
    LET json == {f \in folder : EndsWithJson(f)}
        keys == {GameKey(f) : f \in json}
        games == [k \in keys |-> {f \in json : GameKey(f) = k}]
    IN  [k \in {k \in keys : Cardinality(games[k]) >= 2} |-> games[k]]

\* lines 39-45: game key -> its files, for the keys with exactly two files
get_game_pairs(folder) ==
    LET json == {f \in folder : EndsWithJson(f)}
        keys == {GameKey(f) : f \in json}
        games == [k \in keys |-> {f \in json : GameKey(f) = k}]
    IN  [k \in {k \in keys : Cardinality(games[k]) = 2} |-> games[k]]

\* json.load of a file: its side (the name's part after the last "-") decides
FileData(f, sd) == sd[f[LastDash(f) + 1]]

\* lines 108-109: json.load raises on content that is not JSON
JsonLoadRaises(f, bad) == f[LastDash(f) + 1] \in bad

RECURSIVE RatSum(_, _)
RatSum(S, f) ==
    IF S = {} THEN Zero
    ELSE LET x == CHOOSE y \in S : TRUE IN RatAdd(f[x], RatSum(S \ {x}, f))

\* GameProfit of one side only
GameProfitOneSide(fs, sd, p) ==
    LET f == CHOOSE g \in fs : TRUE IN simulate_position(FileData(f, sd), p)

\* lines 105-110: game_profit of one game
GameProfit(fs, sd, p) ==
    RatSum(fs, [f \in fs |-> simulate_position(FileData(f, sd), p)])

WeekSet == {w \in {WeekNames[i] : i \in 1..Len(WeekNames)} : TRUE}

InitRun ==
    /\ BatchIdle
    /\ LiveIdle
    /\ SmoothIdle
    /\ SweepIdle
    /\ run_params \in RunParamSet
    /\ filter_folder \in
          [WeekSet -> {NoDir} \cup {[isdir |-> TRUE, files |-> F] :
                                      F \in SUBSET FileNames}]
    /\ side_data \in [Sides -> SeriesPool]
    /\ unparseable \in UnparseablePool
    /\ week_queue = WeekNames
    /\ week_name = ""
    /\ game_pairs = [k \in {} |-> {}]
    /\ processed = <<>>
    /\ bankroll = Rat(START_BANKROLL, 1)
    /\ rpc = "weeks"

\* lines 98-103: the next entry of the sorted listing
NextWeek ==
    /\ rpc = "weeks"
    /\ week_queue # <<>>
    /\ week_name' = Head(week_queue)
    /\ week_queue' = Tail(week_queue)
    /\ IF filter_folder[Head(week_queue)].isdir
       THEN /\ game_pairs' = get_game_pairs(filter_folder[Head(week_queue)].files)
            /\ rpc' = "games"
       ELSE /\ game_pairs' = game_pairs
            /\ rpc' = "weeks"
    /\ UNCHANGED <<run_params, filter_folder, side_data, unparseable, processed,
                   bankroll>>
    /\ UNCHANGED <<batchVars, liveVars, smoothVars, sweepVars>>

\* lines 104-111: one game of the week; the dict yields them in listing order,
\* which the file system decides.  json.load of a file it cannot parse raises
\* and nothing catches it.
ProcessGame ==
    /\ rpc = "games"
    /\ \E game_key \in DOMAIN game_pairs :
          IF \E f \in game_pairs[game_key] : JsonLoadRaises(f, unparseable)
          THEN /\ rpc' = "raised"
               /\ UNCHANGED <<bankroll, game_pairs, processed>>
          ELSE /\ bankroll' = RatAdd(bankroll,
                                     GameProfit(game_pairs[game_key], side_data,
                                                run_params))
               /\ game_pairs' = [k \in DOMAIN game_pairs \ {game_key} |->
                                    game_pairs[k]]
               /\ processed' = Append(processed, <<week_name, game_key>>)
               /\ rpc' = rpc
    /\ UNCHANGED <<run_params, filter_folder, side_data, unparseable, week_queue,
                   week_name>>
    /\ UNCHANGED <<batchVars, liveVars, smoothVars, sweepVars>>

\* line 104: the week's games are exhausted
WeekDone ==
    /\ rpc = "games"
    /\ DOMAIN game_pairs = {}
    /\ rpc' = "weeks"
    /\ UNCHANGED <<run_params, filter_folder, side_data, unparseable, week_queue, week_name,
                   game_pairs, processed, bankroll>>
    /\ UNCHANGED <<batchVars, liveVars, smoothVars, sweepVars>>

\* line 113
ReturnBankroll ==
    /\ rpc = "weeks"
    /\ week_queue = <<>>
    /\ rpc' = "done"
    /\ UNCHANGED <<run_params, filter_folder, side_data, unparseable, week_queue, week_name,
                   game_pairs, processed, bankroll>>
    /\ UNCHANGED <<batchVars, liveVars, smoothVars, sweepVars>>

NextRun ==
    \/ NextWeek
    \/ ProcessGame
    \/ WeekDone
    \/ ReturnBankroll

SpecRun == InitRun /\ [][NextRun]_vars

----------------------------------------------------------------------------
(* The position state machine in both contexts: one call of                *)
(* simulate_position, or one run of the live runner                        *)

InitPosition == InitBatch \/ InitLive

NextPosition == NextBatch \/ NextLive

SpecPosition == InitPosition /\ [][NextPosition]_vars

----------------------------------------------------------------------------
(* The smoother alone, in doubles: the same prices fed to smooth_next      *)
(* (batch) and to ewma_update (live)                                       *)

\* alpha as written in the source or chosen by a caller: the lower clip of
\* compute_alpha_from_sigma_minutes, the default of incremental_ema_smooth,
\* the value of __main__, the upper clip, and 1
AlphaLiterals == {<<1, 1000>>, <<1, 4>>, <<3, 10>>, <<1, 2>>, <<1, 1>>}

\* price_cents of a record: integer 0..100
AllCents == 0..100

InitSmooth ==
    /\ BatchIdle
    /\ LiveIdle
    /\ RunIdle
    /\ SweepIdle
    /\ smoother_alpha \in AlphaLiterals
    /\ smoother_cents \in AllCents
    /\ fed = <<>>
    /\ closure_last = NoFloat
    /\ live_prev = NoFloat
    /\ updates = 0

\* the price as the callers hand it over: price_cents / 100 (line 48),
\* p / 100.0 (simulate_live.py line 42)
PriceOf(cents) == FloatDiv(cents, 100)

\* the market's price
FedPrice == PriceOf(smoother_cents)

\* the prices the market may jump to
JumpCents == {0, 1, 100}

FedAlpha == FloatDiv(smoother_alpha[1], smoother_alpha[2])

\* one more update of both smoothers with the same price: the market's
\* price or one it jumped to
FeedPrice ==
    /\ updates < MaxUpdates
    /\ \E c \in {smoother_cents} \cup JumpCents :
          /\ closure_last' = SmoothNextDouble(closure_last, PriceOf(c), FedAlpha)
          /\ live_prev' = EwmaUpdateDouble(live_prev, PriceOf(c), FedAlpha)
          /\ fed' = Append(fed, c)
    /\ updates' = updates + 1
    /\ UNCHANGED <<smoother_alpha, smoother_cents>>
    /\ UNCHANGED <<batchVars, liveVars, runVars, sweepVars>>

NextSmooth == FeedPrice

SpecSmooth == InitSmooth /\ [][NextSmooth]_vars

----------------------------------------------------------------------------
(* super_checker_full.py: the parameter sweep.  Parameter values are in    *)
(* hundredths, bankrolls in tenths of a cent.                              *)

\* what np.arange gives for the ranges of lines 10-14
MinStartGrids == {<<14>>, <<14, 73>>, <<73>>}

MaxStartGrids == {<<71, 72>>, <<71, 72, 73>>}

GainThresholdGrids == {<<2>>}

FallFractionGrids == {<<79>>}

AlphaGrids == {<<20>>, <<20, 21>>}

\* run_simulation raises
Raised == None

\* line 15, passed to run_simulation at line 45; also the default of
\* run_simulation (advanced_simulate.py line 32)
HALFTIME_FRACTION == <<1, 1>>

\* the bankrolls run_simulation may return
Bankrolls == {20004, 20125, 20375}

\* itertools.product of lines 26-28: the last range varies fastest
Product(g) ==
    LET n1 == Len(g.min_starts)
        n2 == Len(g.max_starts)
        n3 == Len(g.gain_thresholds)
        n4 == Len(g.fall_fractions)
        n5 == Len(g.alphas)
    IN  [k \in 1..(n1 * n2 * n3 * n4 * n5) |->
            LET j == k - 1
            IN  <<g.min_starts[((j \div (n2 * n3 * n4 * n5)) % n1) + 1],
                  g.max_starts[((j \div (n3 * n4 * n5)) % n2) + 1],
                  g.gain_thresholds[((j \div (n4 * n5)) % n3) + 1],
                  g.fall_fractions[((j \div n5) % n4) + 1],
                  g.alphas[(j % n5) + 1]>>]

\* KeepCombo keeping max_start = min_start as well
KeepComboOrEqual(c) == c[2] >= c[1]

\* line 29: if max_start > min_start
KeepCombo(c) == c[2] > c[1]

\* lines 24-30
ParamCombos(g) == SelectSeq(Product(g), KeepCombo)

\* round(bankroll, 2): to the nearest cent, a half to the even cent
RoundCents(b) ==
    LET q == b \div 10
        r == b % 10
    IN  IF r > 5 \/ (r = 5 /\ q % 2 = 1) THEN q + 1 ELSE q

\* lines 47-54: the row of one combination (round(x, 3) leaves hundredths)
Row(c, b) == <<c[1], c[2], c[3], c[4], c[5], RoundCents(b)>>

\* line 59: int(np.ceil(total_combos / num_cores))
CeilDiv(a, b) == (a + b - 1) \div b

\* line 60: param_combos[i:i + chunk_size] for i in range(0, total, chunk_size)
Chunks(combos, size) ==
    [k \in 1..CeilDiv(Len(combos), size) |->
        SubSeq(combos, (k - 1) * size + 1,
               IF k * size < Len(combos) THEN k * size ELSE Len(combos))]

\* lines 36-55: the rows run_batch returns
RunBatch(batch, sc) == [k \in 1..Len(batch) |-> Row(batch[k], sc[batch[k]])]

\* run_batch raises: run_simulation raised for a combination of the batch
BatchRaises(batch, sc) == \E k \in 1..Len(batch) : sc[batch[k]] = Raised

\* max(rows) without key=: the tuples compared from their first field on
RECURSIVE MaxByTuple(_)
MaxByTuple(rows) ==
    IF Len(rows) = 1 THEN rows[1]
    ELSE LET m == MaxByTuple(Tail(rows))
             LexGreater(a, b) ==
                 \E i \in 1..6 : a[i] > b[i] /\ \A j \in 1..(i - 1) : a[j] = b[j]
         IN  IF LexGreater(m, rows[1]) THEN m ELSE rows[1]

\* lines 75 and 88: max(rows, key=lambda r: r[-1]), the first of the greatest
MaxByBankroll(rows) ==
    LET top == {i \in 1..Len(rows) : \A j \in 1..Len(rows) : rows[j][6] <= rows[i][6]}
    IN  rows[CHOOSE i \in top : \A j \in top : i <= j]

SeqSet(s) == {s[i] : i \in 1..Len(s)}

InitSweep ==
    /\ BatchIdle
    /\ LiveIdle
    /\ RunIdle
    /\ SmoothIdle
    /\ grid \in [min_starts : MinStartGrids, max_starts : MaxStartGrids,
                 gain_thresholds : GainThresholdGrids,
                 fall_fractions : FallFractionGrids, alphas : AlphaGrids]
    /\ scores \in [SeqSet(ParamCombos(grid)) -> Bankrolls \cup {Raised}]
    /\ cpu_count \in 1..MaxCpus
    /\ param_combos = <<>>
    /\ total_combos = 0
    /\ num_cores = 1
    /\ chunk_size = 0
    /\ chunks = <<>>
    /\ pending = {}
    /\ all_results = <<>>
    /\ completed = 0
    /\ best_so_far = NoRow
    /\ csv = NoCsv
    /\ best = NoRow
    /\ spc = "combos"

\* lines 24-32
BuildCombos ==
    /\ spc = "combos"
    /\ param_combos' = ParamCombos(grid)
    /\ total_combos' = Len(ParamCombos(grid))
    /\ spc' = "split"
    /\ UNCHANGED <<grid, scores, cpu_count, num_cores, chunk_size, chunks,
                   pending, all_results, completed, best_so_far, csv, best>>
    /\ UNCHANGED <<batchVars, liveVars, runVars, smoothVars>>

\* lines 58-60; with no combination chunk_size is 0 and range(0, 0, 0) raises
SplitChunks ==
    /\ spc = "split"
    /\ num_cores' = IF cpu_count - 1 > 1 THEN cpu_count - 1 ELSE 1
    /\ chunk_size' = CeilDiv(total_combos, num_cores')
    /\ IF chunk_size' = 0
       THEN /\ spc' = "raised"
            /\ UNCHANGED <<chunks, pending>>
       ELSE /\ chunks' = Chunks(param_combos, chunk_size')
            /\ pending' = 1..Len(chunks')
            /\ spc' = "pool"
    /\ UNCHANGED <<grid, scores, cpu_count, param_combos, total_combos,
                   all_results, completed, best_so_far, csv, best>>
    /\ UNCHANGED <<batchVars, liveVars, runVars, smoothVars>>

\* lines 70-78: imap_unordered yields the result of one more chunk, whichever
\* is done first; the exception of a chunk that raised is raised here
BatchArrives ==
    /\ spc = "pool"
    /\ \E i \in pending :
          IF BatchRaises(chunks[i], scores)
          THEN /\ spc' = "raised"
               /\ UNCHANGED <<pending, all_results, completed, best_so_far>>
          ELSE /\ pending' = pending \ {i}
               /\ all_results' = all_results \o RunBatch(chunks[i], scores)
               /\ completed' = completed + Len(chunks[i])
               /\ best_so_far' =
                     IF completed' % 50 = 0 \/ completed' = total_combos
                     THEN MaxByBankroll(all_results')
                     ELSE best_so_far
               /\ spc' = "pool"
    /\ UNCHANGED <<grid, scores, cpu_count, param_combos, total_combos,
                   num_cores, chunk_size, chunks, csv, best>>
    /\ UNCHANGED <<batchVars, liveVars, runVars, smoothVars>>

\* lines 81-85: the pool is done, the rows are written
SaveCsv ==
    /\ spc = "pool"
    /\ pending = {}
    /\ csv' = all_results
    /\ spc' = "save"
    /\ UNCHANGED <<grid, scores, cpu_count, param_combos, total_combos,
                   num_cores, chunk_size, chunks, pending, all_results,
                   completed, best_so_far, best>>
    /\ UNCHANGED <<batchVars, liveVars, runVars, smoothVars>>

\* lines 88-96
ReportBest ==
    /\ spc = "save"
    /\ best' = MaxByBankroll(all_results)
    /\ spc' = "done"
    /\ UNCHANGED <<grid, scores, cpu_count, param_combos, total_combos,
                   num_cores, chunk_size, chunks, pending, all_results,
                   completed, best_so_far, csv>>
    /\ UNCHANGED <<batchVars, liveVars, runVars, smoothVars>>

NextSweep ==
    \/ BuildCombos
    \/ SplitChunks
    \/ BatchArrives
    \/ SaveCsv
    \/ ReportBest

SpecSweep == InitSweep /\ [][NextSweep]_vars

----------------------------------------------------------------------------
(* Properties *)

\* simulate_position opened a position (it passed line 64)
Entered == pc \in {"loop", "after"} \/ (pc = "done" /\ sell_price # None)

\* the loop of line 71 broke on a trigger
TriggerFired == Entered /\ pc \in {"after", "done"} /\ idx < Len(prices)

\* the loop of line 71 ran to the end of the series
LoopExhausted == Entered /\ pc \in {"after", "done"} /\ idx = Len(prices)

\* C1: at most one exit per position.  Batch: once a trigger has set
\* sell_price, no step changes sell_price, max_gain or the tick it stopped at,
\* and the loop is not entered again.  Live: a ticker in sold_games stays
\* there with the profit recorded, and is not in active_bets again.
C1_OneExit ==
    [][ /\ (sell_price # None) =>
              /\ sell_price' = sell_price
              /\ max_gain' = max_gain
              /\ idx' = idx
              /\ pc' # "loop"
        /\ \A t \in Sold :
              /\ t \in Keys(sold_games')
              /\ sold_games'[t] = sold_games[t]
              /\ active_bets'[t].start_price = None ]_vars

\* a sold ticker whose smoothed price has moved on after the sale: its
\* recorded profit is no longer bet * (smoothed - start)
C1_Witness ==
    \E t \in Sold :
        /\ ticks = MaxTicks
        /\ sold_games[t] # BET_AMOUNT * (smoothed[t] - price_history[t][1])

\* C2: max_gain of an open position never decreases from one tick to the
\* next, in the batch loop and in evaluate_sells_for_ticker.
C2_MaxGainMonotone ==
    [][ /\ (pc = "loop") => max_gain' >= max_gain
        /\ \A t \in Tickers :
              (active_bets[t].start_price # None
               /\ active_bets'[t].start_price # None)
              => active_bets'[t].max_gain >= active_bets[t].max_gain ]_vars

\* an open live position whose gain has fallen below its max_gain
C2_Witness ==
    \E t \in Active :
        /\ ticks > 0
        /\ smoothed[t] - active_bets[t].start_price < active_bets[t].max_gain

\* C3: a position is opened iff min_start <= entry_price <= max_start, both
\* bounds included; a market not entered returns profit 0.  Batch: the entry
\* price is the first defined smoothed value.  Live: the smoothed value at
\* startup.
C3_EntryInclusive ==
    /\ (pc \in {"loop", "after", "done"}) =>
          /\ Entered <=>
                /\ FirstDefined(smoothed_full) # None
                /\ params.min_start <= FirstDefined(smoothed_full)
                /\ FirstDefined(smoothed_full) <= params.max_start
          /\ (pc = "done" /\ ~Entered) => ret = Zero
    /\ (lpc = "loop" /\ ticks = 0) =>
          \A t \in Tickers :
              (active_bets[t].start_price # None) <=>
                  /\ smoothed[t] # Absent
                  /\ 14 * Scale <= smoothed[t]
                  /\ smoothed[t] <= 77 * Scale

\* after startup: one ticker entered exactly at MIN_START, the other one
\* cent above MAX_START and not entered
C3_Witness ==
    /\ lpc = "loop"
    /\ \E t, u \in Tickers :
          /\ smoothed[t] = 14 * Scale /\ active_bets[t].start_price = 14 * Scale
          /\ smoothed[u] = 78 * Scale /\ active_bets[u].start_price = None

\* C4: when a trigger fires at tick idx the sell price is the raw price
\* prices[idx], and the profit returned is
\* stake * (sell_price / start_price - 1) with start_price the first smoothed
\* value.
C4_SellAtRawPrice ==
    TriggerFired =>
        /\ sell_price = data[idx + 1] * Scale
        /\ start_price = FirstDefined(smoothed_full)
        /\ (pc = "done") =>
              ret[1] * start_price
                  = ret[2] * FLAT_BET_AMOUNT * (data[idx + 1] * Scale - start_price)

\* a trigger fired at a tick whose raw price differs from its smoothed price
C4_Witness ==
    /\ TriggerFired
    /\ pc = "done"
    /\ smoothed_full[idx + 1] # prices[idx + 1]
    /\ ret # Zero

\* C5: in the live runner the profit of a sale is
\* stake * (sell_price - start_price) with sell_price the raw price read at
\* that tick (the last entry of price_history), and the bankroll grows by it.
C5_LiveProfitAtRawPrice ==
    [][ \A t \in Keys(sold_games') \ Sold :
            sold_games'[t] =
                active_bets[t].bet
                    * (Last(price_history'[t]) - active_bets[t].start_price) ]_vars

\* The trigger conditions at the tick the batch loop is about to process,
\* with max_gain as line 79 leaves it
AtTick == pc = "loop" /\ idx < Len(prices) /\ prices[idx + 1] # None

TickGain == smoothed_full[idx + 1] - start_price

TickMaxGain == IF TickGain > max_gain THEN TickGain ELSE max_gain

TickPeakDrop ==
    TickMaxGain >= params.gain_threshold /\ TickGain < params.gain_threshold

TickRetracement ==
    /\ TickMaxGain > params.gain_threshold
    /\ TickGain * params.fall_fraction[2] <= TickMaxGain * params.fall_fraction[1]

TickStagnation ==
    /\ idx = (Len(data) * params.halftime_fraction[1])
                 \div params.halftime_fraction[2]
    /\ smoothed_full[idx + 1] < start_price + params.gain_threshold

\* C6 as claimed: at most one of Peak-drop, Retracement and Stagnation holds
\* at a tick.
C6_MutuallyExclusive ==
    AtTick =>
        /\ ~(TickPeakDrop /\ TickRetracement)
        /\ ~(TickPeakDrop /\ TickStagnation)
        /\ ~(TickRetracement /\ TickStagnation)

\* C6 amended: Retracement and Stagnation hold together only at a tick where
\* Peak-drop holds too; and the tick closes the position (at its raw price)
\* exactly when one of the three holds.
C6_OnlyPeakDropOverlaps ==
    [][ AtTick =>
          /\ (TickRetracement /\ TickStagnation) => TickPeakDrop
          /\ (TickPeakDrop \/ TickRetracement \/ TickStagnation)
                <=> (pc' = "after" /\ sell_price' = prices[idx + 1]) ]_vars

\* the position was closed at the halftime tick by Retracement alone: its
\* gain there is at least the threshold, so neither Peak-drop nor Stagnation
C6_Witness ==
    /\ TriggerFired
    /\ idx = halftime_index
    /\ smoothed_full[idx + 1] - start_price >= params.gain_threshold
    /\ max_gain > smoothed_full[idx + 1] - start_price

\* C7: if the position is open when the loop reaches the tick of index
\* floor(series_length * halftime_fraction) and the smoothed price there is
\* below start_price + gain_threshold, the position closes at that tick, at
\* its raw price.
C7_StagnationExit ==
    [][ (AtTick /\ TickStagnation) =>
            /\ pc' = "after"
            /\ idx' = idx
            /\ sell_price' = data[idx + 1] * Scale ]_vars

\* closed at the halftime tick with max_gain below the threshold (so by
\* Stagnation, not Peak-drop), in a series with a null tick before it
C7_Witness ==
    /\ TriggerFired
    /\ idx = (Len(data) * params.halftime_fraction[1])
                 \div params.halftime_fraction[2]
    /\ max_gain < params.gain_threshold
    /\ \E j \in 1..idx : data[j] = None

\* C8: if the series ends with no trigger fired, the position is closed at
\* the last non-null raw price of the series; start_price stands in only if
\* there is none.
C8_FallbackExit ==
    (LoopExhausted /\ pc = "done") =>
        LET V == {j \in 1..Len(data) : data[j] # None}
        IN  IF V = {}
            THEN sell_price = start_price /\ ret = Zero
            ELSE \E j \in V : /\ \A k \in V : k <= j
                              /\ sell_price = data[j] * Scale

\* a series that ends in a null tick, closed by the fallback at a price other
\* than the start price
C8_Witness ==
    /\ LoopExhausted
    /\ pc = "done"
    /\ data[Len(data)] = None
    /\ sell_price # start_price

\* the game key the pairing rule speaks of: the file name up to its last "-"
NameUpToLastDash(f) ==
    CHOOSE k \in {SubSeq(f, 1, i) : i \in 0..Len(f)} :
        /\ Len(k) < Len(f)
        /\ f[Len(k) + 1] = "-"
        /\ \A j \in (Len(k) + 2)..Len(f) : f[j] # "-"

\* the games of week w with exactly two .json files
PairedKeys(w) ==
    LET json == {f \in filter_folder[w].files : f[Len(f)] = ".json"}
    IN  {k \in {NameUpToLastDash(f) : f \in json} :
            Cardinality({f \in json : NameUpToLastDash(f) = k}) = 2}

ProcessedSet == {processed[i] : i \in 1..Len(processed)}

\* C9: a game key is kept iff exactly two .json files of the week folder
\* share it; run_simulation processes exactly those games, each once, and a
\* run without any leaves the bankroll at its start.
C9_PairingRule ==
    (rpc = "done") =>
        /\ ProcessedSet = UNION {{<<w, k>> : k \in PairedKeys(w)} : w \in WeekSet}
        /\ Len(processed) = Cardinality(ProcessedSet)
        /\ (processed = <<>>) => bankroll = Rat(START_BANKROLL, 1)

\* a week with three .json files of one key and two of another: only the
\* second is processed
C9_Witness ==
    /\ rpc = "done"
    /\ \E w \in WeekSet :
          /\ Cardinality({f \in filter_folder[w].files :
                             f[1] = "g" /\ f[Len(f)] = ".json"}) = 3
          /\ Cardinality({f \in filter_folder[w].files : f[1] = "h"}) = 2
          /\ ProcessedSet = {<<w, <<"h", "-", "x">>>>}

\* the profit of file f under this run's arguments
FileProfit(f) == simulate_position(side_data[f[Len(f) - 1]], run_params)

\* every (week, file) of an included game
IncludedFiles ==
    UNION {{<<w, f>> : f \in {g \in filter_folder[w].files :
                                 /\ g[Len(g)] = ".json"
                                 /\ NameUpToLastDash(g) \in PairedKeys(w)}} :
            w \in WeekSet}

\* C10: the final bankroll is the starting bankroll plus the sum over all
\* included games of both sides' profits, whatever the order of processing.
C10_BankrollIsSum ==
    (rpc = "done") =>
        bankroll = RatAdd(Rat(START_BANKROLL, 1),
                          RatSum(IncludedFiles,
                                 [x \in IncludedFiles |-> FileProfit(x[2])]))

\* two games of one week with different profits, processed h before g
C10_Witness ==
    /\ rpc = "done"
    /\ Len(processed) >= 2
    /\ processed[1][1] = processed[2][1]
    /\ processed[1][2] = <<"h", "-", "x">>
    /\ processed[2][2] = <<"g">>
    /\ FileProfit(<<"g", "-", "c", ".json">>) # FileProfit(<<"g", "-", "a", ".json">>)
    /\ filter_folder[processed[1][1]].files =
          FileNames \ {<<"g", "-", "a", ".json">>}
    /\ bankroll # Rat(START_BANKROLL, 1)

\* every price fed so far is the market's price
FedConstant == \A i \in 1..Len(fed) : fed[i] = smoother_cents

\* C11 as claimed: a price fed repeatedly comes back unchanged from the
\* first and from every later update, in both smoothers, for every alpha.
C11_ExactOnConstants ==
    (updates >= 1 /\ FedConstant) => (closure_last = FedPrice /\ live_prev = FedPrice)

\* the distance of a smoothed value from the price fed, in units in the last
\* place of the price (halved: the value may lie in the binade below)
HalfUlpsOff(s) == FloatDistance(s, FedPrice, FedPrice.e - 1)

\* C11 amended: the first update returns the price exactly; a later update
\* returns it up to the rounding of the float operations, at most 3 units in
\* the last place of the price for each update made after the first; with
\* alpha = 1 every update returns it exactly.
C11_ConstantUpToRounding ==
    FedConstant =>
        /\ (updates = 1) => (closure_last = FedPrice /\ live_prev = FedPrice)
        /\ (updates >= 1) =>
              /\ BigCmp(HalfUlpsOff(closure_last), BigFromInt(6 * (updates - 1))) <= 0
              /\ BigCmp(HalfUlpsOff(live_prev), BigFromInt(6 * (updates - 1))) <= 0
        /\ (updates >= 1 /\ smoother_alpha = <<1, 1>>) =>
              (closure_last = FedPrice /\ live_prev = FedPrice)

\* 0.01 fed with alpha 0.3: the second update has returned another double
C11_Witness ==
    /\ updates = 2
    /\ FedConstant
    /\ smoother_cents = 1
    /\ smoother_alpha = <<3, 10>>
    /\ closure_last # FedPrice
    /\ live_prev # FedPrice

\* the samples written to t's file since the runner last read it
NewSamples(t) ==
    {i \in (lines_seen[t] + 1)..Len(files[t].lines) : files[t].lines[i] # None}

\* C12: on a tick at which a tracked market's file has no sample written
\* since the previous tick, the market's smoothed value is left unchanged.
C12_NoSampleNoChange ==
    [][ (ticks' = ticks + 1) =>
            \A t \in Tickers :
                (smoothed[t] # Absent /\ NewSamples(t) = {})
                    => smoothed'[t] = smoothed[t] ]_vars

\* C13: an open position whose file has had no sample written since the
\* runner last read it is not closed by the tick (by Peak-drop or
\* Retracement, the only triggers of the live runner).
C13_StaleNeverCloses ==
    [][ \A t \in Active :
            NewSamples(t) = {} => active_bets'[t].start_price # None ]_vars

\* C14: after place_initial_bets no step adds a ticker to active_bets.
C14_NoNewPositions ==
    [][ (lpc = "loop") =>
            \A t \in Tickers :
                active_bets'[t].start_price # None
                    => active_bets[t].start_price # None ]_vars

\* after a tick: one ticker whose file first held a price after startup and
\* another whose price was outside the entry range at startup, both with a
\* smoothed price inside the range now, neither with a position
C14_Witness ==
    /\ ticks >= 1
    /\ \E t, u \in Tickers :
          /\ price_history[t] # <<>>
          /\ Len(price_history[t]) <= ticks
          /\ InStartRange(smoothed[t])
          /\ t \notin Active \cup Sold
          /\ Len(price_history[u]) = ticks + 1
          /\ ~InStartRange(price_history[u][1])
          /\ InStartRange(smoothed[u])
          /\ u \notin Active \cup Sold

\* C15: a tick in which a position is sold renders the dashboard (the state
\* after the sale); a tick without a sale renders it exactly when
\* DISPLAY_INTERVAL seconds or more have passed since the last render; so
\* after every tick less than DISPLAY_INTERVAL has passed since the last
\* render, and a render comes less than DISPLAY_INTERVAL plus the length of
\* its tick after the one before.
C15_RenderOnSaleOrInterval ==
    [][ (ticks' = ticks + 1) =>
            LET sold_now == Keys(sold_games') \ Sold
                rendered == last_display' = now'
            IN  /\ (sold_now # {}) => rendered
                /\ (sold_now = {}) => (rendered <=> now' - last_display >= 10)
                /\ rendered =>
                      dashboard' = Dashboard(smoothed', active_bets',
                                             sold_games', live_bankroll')
                /\ ~rendered => dashboard' = dashboard
                /\ now' - last_display' < 10
                /\ (rendered /\ ticks >= 1) =>
                      now' - last_display < 10 + (now' - now) ]_vars

\* the third tick rendered with no sale so far and a position open: 10
\* seconds or more after the render of the first tick, none at the second
C15_Witness ==
    /\ ticks = 3
    /\ last_display = now
    /\ Sold = {}
    /\ Active # {}
    /\ dashboard.rows # NoDashboard.rows

\* the combinations of the grid, kept or not
GridCombos == SeqSet(Product(grid))

\* how many places of the chunks hold combination c
ChunkCount(c) ==
    Cardinality({<<i, k>> \in (1..Len(chunks)) \X (1..Len(param_combos)) :
                    k <= Len(chunks[i]) /\ chunks[i][k] = c})

\* how many result rows are rows of combination c
RowCount(c) ==
    Cardinality({i \in 1..Len(all_results) :
                    SubSeq(all_results[i], 1, 5) = c})

\* imap_unordered has yielded every chunk
PoolFinished == (spc = "pool" /\ pending = {}) \/ spc \in {"save", "done"}

\* C16: once the chunks are cut, every combination of the grid with
\* max_start > min_start is in exactly one place of exactly one chunk and
\* every other combination is in none; no combination ever has more than
\* one result row and a combination with max_start <= min_start never has
\* one; and once the pool has finished every combination with max_start >
\* min_start has exactly one row and the rows are total_combos in number,
\* whatever the number of workers.
C16_SweepCoverage ==
    /\ chunk_size > 0 =>
          \A c \in GridCombos : ChunkCount(c) = IF c[2] > c[1] THEN 1 ELSE 0
    /\ \A c \in GridCombos : RowCount(c) <= IF c[2] > c[1] THEN 1 ELSE 0
    /\ PoolFinished =>
          /\ \A c \in GridCombos : RowCount(c) = IF c[2] > c[1] THEN 1 ELSE 0
          /\ Len(all_results) = total_combos
          /\ total_combos = Cardinality({c \in GridCombos : c[2] > c[1]})

\* the sweep is done with chunks of unequal length, on a grid that has
\* combinations with max_start <= min_start
C16_Witness ==
    /\ spc = "done"
    /\ Len(chunks) >= 2
    /\ Len(chunks[1]) # Len(chunks[Len(chunks)])
    /\ \E c \in GridCombos : c[2] <= c[1]
    /\ Len(csv) = total_combos

\* the greatest bankroll of the rows of all combinations
MaxBankroll ==
    CHOOSE m \in {RoundCents(scores[c]) : c \in DOMAIN scores} :
        \A c \in DOMAIN scores : RoundCents(scores[c]) <= m

\* C17: when the sweep is done, the bankroll of the reported best row is
\* the greatest bankroll over the rows of all combinations, which does not
\* depend on the order in which the chunks' results arrived, and the best
\* row is one of the rows with that bankroll.
C17_BestIsOrderIndependent ==
    spc = "done" =>
        /\ best[6] = MaxBankroll
        /\ \E c \in DOMAIN scores : best = Row(c, scores[c])
        /\ best_so_far[6] = MaxBankroll

\* the sweep is done, the results of the chunks arrived in another order
\* than the chunks were cut, and the best row reported is another one of
\* the tied rows than the first of them in the order of the grid
C17_Witness ==
    /\ spc = "done"
    /\ Len(chunks) >= 2
    /\ all_results # RunBatch(param_combos, scores)
    /\ best # MaxByBankroll(RunBatch(param_combos, scores))
    /\ best[6] = MaxBankroll

\* C18: when run_simulation raises for a combination, the sweep still comes
\* to its end with the rows of all other combinations written.
C18_FailureIsolated ==
    (spc \in {"done", "raised"} /\ \E c \in DOMAIN scores : scores[c] = Raised) =>
        /\ spc = "done"
        /\ \A c \in DOMAIN scores :
              scores[c] # Raised => Row(c, scores[c]) \in SeqSet(csv)


\* the included files json.load cannot parse
UnparseableFiles == {x \in IncludedFiles : x[2][Len(x[2]) - 1] \in unparseable}

\* C19: when a file of an included game cannot be parsed, run_simulation
\* still returns, and what it returns is the starting bankroll plus the
\* profits of the included files that can be parsed.
C19_UnparseableSkipped ==
    (rpc \in {"done", "raised"} /\ UnparseableFiles # {}) =>
        /\ rpc = "done"
        /\ bankroll = RatAdd(Rat(START_BANKROLL, 1),
                             RatSum(IncludedFiles \ UnparseableFiles,
                                    [x \in IncludedFiles \ UnparseableFiles |->
                                        FileProfit(x[2])]))


\* C20: for a series that is empty or whose prices are all null, under
\* every parameter setting, simulate_position returns as soon as it has read
\* the prices and what it returns is the profit 0.
C20_NoPriceNoProfit ==
    (pc # "parse" /\ \A i \in 1..Len(data) : data[i] = None) =>
        /\ pc = "done"
        /\ ret = <<0, 1>>
        /\ simulate_position(data, params) = <<0, 1>>
        /\ smoothed_full = <<>>
        /\ start_price = None

\* the call has returned for a series of two or more records, all null
C20_Witness ==
    /\ pc = "done"
    /\ Len(data) >= 2
    /\ \A i \in 1..Len(data) : data[i] = None
    /\ prices = [i \in 1..Len(data) |-> None]
    /\ ret = <<0, 1>>


\* the gain at the tick of index j (its price is not null)
GainAt(j) == smoothed_full[j + 1] - start_price

\* max_gain as line 79 leaves it at the tick of index j when no tick before
\* it closed the position: the greatest gain of the non-null ticks up to j,
\* or 0
MaxGainAt(j) ==
    LET G == {GainAt(k) : k \in {k \in 0..j : prices[k + 1] # None}} \cup {0}
    IN  CHOOSE g \in G : \A h \in G : h <= g

\* the indexes of the non-null ticks at which a trigger condition holds
TriggerTicks ==
    {j \in 0..(Len(prices) - 1) :
        /\ prices[j + 1] # None
        /\ \/ MaxGainAt(j) >= params.gain_threshold
              /\ GainAt(j) < params.gain_threshold
           \/ MaxGainAt(j) > params.gain_threshold
              /\ GainAt(j) * params.fall_fraction[2]
                    <= MaxGainAt(j) * params.fall_fraction[1]
           \/ j = (Len(prices) * params.halftime_fraction[1])
                      \div params.halftime_fraction[2]
              /\ smoothed_full[j + 1] < start_price + params.gain_threshold}

\* C21: the position closes at the earliest non-null tick at which a trigger
\* condition holds: while the loop runs no tick before idx is such a tick,
\* and when the loop is over it stopped at the first such tick, or ran to
\* the end of the series if there is none.
C21_EarliestTrigger ==
    /\ (pc = "loop") => \A j \in TriggerTicks : j >= idx
    /\ (Entered /\ pc \in {"after", "done"}) =>
          IF TriggerTicks = {}
          THEN idx = Len(prices)
          ELSE /\ idx \in TriggerTicks
               /\ \A j \in TriggerTicks : idx <= j
               /\ (pc = "done") => sell_price = prices[idx + 1]

\* closed by Retracement alone at the fourth tick, two ticks after max_gain
\* first exceeded the threshold
C21_Witness ==
    /\ pc = "done"
    /\ TriggerFired
    /\ idx = 3
    /\ MaxGainAt(1) > params.gain_threshold
    /\ GainAt(3) >= params.gain_threshold
    /\ GainAt(3) * params.fall_fraction[2] <= MaxGainAt(3) * params.fall_fraction[1]
    /\ idx # halftime_index


\* the series without its null records
DefinedData == SelectSeq(data, LAMBDA c : c # None)

\* the smoothed values of the series with the null records left out: each
\* is the step of the one before it, the first is the first price
RECURSIVE SmoothedDefined(_)
SmoothedDefined(n) ==
    IF n = 0 THEN <<>>
    ELSE IF n = 1 THEN <<DefinedData[1] * Scale>>
    ELSE LET before == SmoothedDefined(n - 1)
         IN  Append(before,
                    (params.ema_alpha[1] * DefinedData[n] * Scale
                       + (params.ema_alpha[2] - params.ema_alpha[1]) * before[n - 1])
                      \div params.ema_alpha[2])

\* C22: a null tick is inert.  The smoothed series has None exactly at the
\* null ticks and its other values are those of the series with the null
\* ticks left out; the loop passes a null tick without a change of max_gain
\* or sell_price and without closing the position; and the price sold at is
\* never null: a trigger sells at the non-null price of its tick, the
\* fallback at the last non-null price.
C22_NullTicksInert ==
    /\ [](pc \in {"screen", "loop", "after", "done"} /\ smoothed_full # <<>> =>
            /\ Len(smoothed_full) = Len(data)
            /\ \A j \in 1..Len(data) : (smoothed_full[j] = None) <=> (data[j] = None)
            /\ SelectSeq(smoothed_full, LAMBDA s : s # None)
                  = SmoothedDefined(Len(DefinedData)))
    /\ [](pc = "done" /\ Entered =>
            /\ sell_price # None
            /\ \E j \in 1..Len(data) : data[j] # None /\ sell_price = data[j] * Scale
            /\ LoopExhausted =>
                  \E j \in 1..Len(data) :
                      /\ data[j] # None
                      /\ sell_price = data[j] * Scale
                      /\ \A k \in (j + 1)..Len(data) : data[k] = None)
    /\ [][ (pc = "loop" /\ idx < Len(data) /\ data[idx + 1] = None) =>
              /\ max_gain' = max_gain
              /\ sell_price' = sell_price
              /\ pc' = "loop"
              /\ idx' = idx + 1 ]_vars

\* the call has returned for a series with a null tick between two prices,
\* passed by the loop, where the value smoothed after the gap is not the raw
\* price, and whose last tick is null
C22_Witness ==
    /\ pc = "done"
    /\ Entered
    /\ data[Len(data)] = None
    /\ \E j \in 2..(Len(data) - 1) :
          /\ data[j] = None
          /\ j <= idx
          /\ data[j - 1] # None
          /\ smoothed_full[j + 1] # None
          /\ smoothed_full[j + 1] # prices[j + 1]


\* C23: fed the same prices in the same order with the same alpha, the
\* closure of incremental_ema_smooth and ewma_update threaded through its own
\* output from None hold the same double after every update.
C23_SmoothersAgree ==
    /\ closure_last = live_prev
    /\ (updates >= 1) => closure_last # NoFloat

\* three updates with prices that differ and an alpha that is not a power
\* of two: the smoothed value is none of the prices fed
C23_Witness ==
    /\ updates = 3
    /\ smoother_alpha = <<3, 10>>
    /\ fed[1] # fed[2]
    /\ fed[2] # fed[3]
    /\ \A i \in 1..3 : live_prev # PriceOf(fed[i])
    /\ live_prev = closure_last


\* the least and the greatest of the prices fed so far
FedMin == PriceOf(CHOOSE c \in SeqSet(fed) : \A d \in SeqSet(fed) : c <= d)

FedMax == PriceOf(CHOOSE c \in SeqSet(fed) : \A d \in SeqSet(fed) : d <= c)

\* a float as a multiple of 2^e, e no greater than its exponent
FloatUnits(a, e) == IF a.m = <<>> THEN <<>> ELSE BigShl(a.m, a.e - e)

\* an exponent no greater than that of a, b or FedMax
LowExponent(a, b) ==
    LET E == {a.e, b.e, FedMax.e}
    IN  CHOOSE e \in E : \A f \in E : e <= f

\* -1, 0, 1 as a < b, a = b, a > b
FloatCmp(a, b) ==
    BigCmp(FloatUnits(a, LowExponent(a, b)), FloatUnits(b, LowExponent(a, b)))

\* C28 as claimed: every smoothed value lies between the least and the
\* greatest of the prices fed so far.
C28_WithinRawRange ==
    (updates >= 1) =>
        \A s \in {closure_last, live_prev} :
            FloatCmp(FedMin, s) <= 0 /\ FloatCmp(s, FedMax) <= 0

\* how far s lies below a, as a multiple of 2^e; nothing if it does not
Below(s, a, e) ==
    IF BigCmp(FloatUnits(s, e), FloatUnits(a, e)) < 0
    THEN BigSub(FloatUnits(a, e), FloatUnits(s, e))
    ELSE <<>>

\* C28 amended: the first smoothed value is the first price; a later one
\* lies below the least or above the greatest of the prices fed so far by no
\* more than 3 units in the last place of the greatest price for each update
\* made after the first; with alpha = 1 it is the last price fed; and it is
\* never above 1.
C28_WithinRawRangeUpToRounding ==
    (updates >= 1) =>
        \A s \in {closure_last, live_prev} :
            LET e == LowExponent(s, FedMin)
                slack == BigShl(BigFromInt(3 * (updates - 1)), FedMax.e - e)
            IN  /\ (updates = 1) => s = PriceOf(fed[1])
                /\ BigCmp(Below(s, FedMin, e), slack) <= 0
                /\ BigCmp(Below(FedMax, s, e), slack) <= 0
                /\ (smoother_alpha = <<1, 1>>) => s = PriceOf(fed[Len(fed)])
                /\ FloatCmp(s, FloatOne) <= 0

\* after the third update the smoothed value of both smoothers lies below
\* the least of the prices fed, which is not 0
C28_Witness ==
    /\ updates = 3
    /\ FedMin # FloatZero
    /\ FloatCmp(closure_last, FedMin) < 0
    /\ FloatCmp(live_prev, FedMin) < 0


\* the sum of the profits sold records for the tickers of S
RECURSIVE SumProfits(_, _)
SumProfits(sold, S) ==
    IF S = {} THEN 0
    ELSE LET t == CHOOSE u \in S : TRUE IN sold[t] + SumProfits(sold, S \ {t})

\* the sum of the profits recorded in sold
SoldTotal(sold) == SumProfits(sold, {t \in Tickers : sold[t] # None})

\* C24: between ticks the bankroll is the sum of the profits recorded in
\* sold_games and no ticker is in both active_bets and sold_games; no step
\* changes or removes an entry of sold_games, and the bankroll grows by
\* exactly the entries a step adds; an interruption between two ticks
\* changes none of sold_games, active_bets and the bankroll.
C24_RealizedAppendOnly ==
    /\ [](/\ live_bankroll = SoldTotal(sold_games)
          /\ \A t \in Tickers :
                ~(active_bets[t].start_price # None /\ sold_games[t] # None))
    /\ [][ /\ \A t \in Tickers :
                 (sold_games[t] # None) => sold_games'[t] = sold_games[t]
           /\ LET added == {t \in Tickers :
                               sold_games[t] = None /\ sold_games'[t] # None}
              IN  /\ live_bankroll' - live_bankroll
                        = SoldTotal(sold_games') - SoldTotal(sold_games)
                  /\ (added # {}) => ticks' = ticks + 1
                  /\ \A t \in added : active_bets[t].start_price # None
           /\ (lpc' = "interrupted") =>
                 /\ sold_games' = sold_games
                 /\ active_bets' = active_bets
                 /\ live_bankroll' = live_bankroll ]_vars

\* the loop was interrupted after a sale, with another position still open
\* and a bankroll that is not 0
C24_Witness ==
    /\ lpc = "interrupted"
    /\ ticks >= 2
    /\ \E t, u \in Tickers :
          /\ sold_games[t] # None
          /\ active_bets[u].start_price # None
          /\ live_bankroll = sold_games[t]
          /\ live_bankroll # 0


\* C25: there is no stop-loss.  Live: max_gain of an open position is never
\* below its gain, and a tick closes a position only if max_gain, with the
\* gain of that tick, has reached the threshold of 0.03; so a position whose
\* smoothed price never rose by the threshold stays open whatever its price.
\* Batch: max_gain is the greatest gain seen, and a position whose max_gain
\* is below gain_threshold (> 0) when the loop is over was closed by
\* Stagnation at the halftime tick or by the fallback at the last price.
C25_NoStopLoss ==
    /\ [][ (ticks' = ticks + 1) =>
              \A t \in Tickers :
                  (active_bets[t].start_price # None) =>
                      LET gain == smoothed'[t] - active_bets[t].start_price
                          mg == IF gain > active_bets[t].max_gain
                                THEN gain ELSE active_bets[t].max_gain
                      IN  /\ (sold_games'[t] # None) => mg >= 3 * Scale
                          /\ (mg < 3 * Scale) =>
                                /\ active_bets'[t].start_price
                                      = active_bets[t].start_price
                                /\ active_bets'[t].max_gain = mg
                                /\ sold_games'[t] = None ]_vars
    /\ [](\A t \in Tickers :
              (active_bets[t].start_price # None) =>
                  active_bets[t].max_gain
                      >= smoothed[t] - active_bets[t].start_price)
    /\ []((Entered /\ pc \in {"after", "done"}
                   /\ params.gain_threshold > 0
                   /\ max_gain < params.gain_threshold) =>
              /\ \A j \in 0..(idx - 1) :
                    prices[j + 1] # None =>
                        smoothed_full[j + 1] - start_price < params.gain_threshold
              /\ (idx < Len(prices)) =>
                    /\ idx = halftime_index
                    /\ smoothed_full[idx + 1]
                          < start_price + params.gain_threshold
              /\ (idx = Len(prices) /\ pc = "done") =>
                    sell_price = LastPriceOr(prices, start_price))

\* a live position that is still open at the last tick followed, its
\* smoothed price 10 cents or more below its start price
C25_Witness ==
    /\ ticks = MaxTicks
    /\ \E t \in Tickers :
          /\ active_bets[t].start_price # None
          /\ active_bets[t].max_gain < 3 * Scale
          /\ smoothed[t] <= active_bets[t].start_price - 10 * Scale
          /\ sold_games[t] = None


\* the first price of the series that is not null, in price units
FirstRawPrice == DefinedData[1] * Scale

\* C26: for a series with a price, the first defined smoothed value is the
\* first non-null raw price, it is the start price of the position, and the
\* position is opened exactly when that raw price is within
\* [min_start, max_start].
C26_EntryAtFirstRawPrice ==
    (pc \in {"screen", "loop", "after", "done"} /\ DefinedData # <<>>) =>
        /\ FirstDefined(smoothed_full) = FirstRawPrice
        /\ \E j \in 1..Len(data) :
              /\ data[j] # None
              /\ \A k \in 1..(j - 1) : data[k] = None
              /\ smoothed_full[j] = data[j] * Scale
        /\ (pc # "screen") =>
              /\ start_price = FirstRawPrice
              /\ Entered <=> /\ params.min_start <= FirstRawPrice
                             /\ FirstRawPrice <= params.max_start

\* a position opened on a series whose first record is null, with alpha < 1:
\* its start price is the raw price of the second record, and a later
\* smoothed value is not the raw price of its tick
C26_Witness ==
    /\ pc = "done"
    /\ Entered
    /\ data[1] = None
    /\ start_price = data[2] * Scale
    /\ params.ema_alpha # <<1, 1>>
    /\ \E j \in 3..Len(data) :
          smoothed_full[j] # None /\ smoothed_full[j] # prices[j]


\* C27: with halftime_fraction = 1.0 the stagnation index is the length of
\* the series, the loop never stands at that index, the Stagnation condition
\* holds at no tick, and a position closed by a trigger was closed at a tick
\* where Peak-drop or Retracement holds; any other is closed by the fallback
\* at the end of the series.
C27_NoStagnationAtFullLength ==
    (params.halftime_fraction = HALFTIME_FRACTION) =>
        /\ (pc \in {"loop", "after", "done"} /\ Entered) =>
              /\ halftime_index = Len(data)
              /\ idx # halftime_index \/ pc # "loop" \/ idx = Len(prices)
        /\ AtTick => ~TickStagnation
        /\ TriggerFired =>
              /\ idx < Len(data)
              /\ \/ MaxGainAt(idx) >= params.gain_threshold
                    /\ GainAt(idx) < params.gain_threshold
                 \/ MaxGainAt(idx) > params.gain_threshold
                    /\ GainAt(idx) * params.fall_fraction[2]
                          <= MaxGainAt(idx) * params.fall_fraction[1]
        /\ (Entered /\ pc = "done" /\ ~TriggerFired) =>
              /\ idx = Len(data)
              /\ sell_price = LastPriceOr(prices, start_price)

\* with halftime_fraction = 1.0, a position that was open at the last tick
\* of the series with its smoothed price below start_price + gain_threshold,
\* closed by the fallback
C27_Witness ==
    /\ params.halftime_fraction = HALFTIME_FRACTION
    /\ pc = "done"
    /\ LoopExhausted
    /\ Len(data) >= 2
    /\ data[Len(data)] # None
    /\ smoothed_full[Len(data)] < start_price + params.gain_threshold
    /\ ret # Zero


\* simulate_position opened a position (it passed line 64), whether or not
\* line 95 raised afterwards
Opened == Entered \/ pc = "raised"

\* C29: every opened position has start_price >= min_start, so with
\* min_start > 0 the start price is above 0 and the division of line 95 does
\* not raise; it raises only for a position opened at a first price of 0
\* cents with min_start <= 0.
C29_DivisionDefined ==
    /\ Opened => start_price >= params.min_start
    /\ (params.min_start > 0) =>
          /\ pc # "raised"
          /\ Opened => start_price > 0
          /\ (pc = "done" /\ Entered) =>
                ret[1] * start_price
                    = ret[2] * FLAT_BET_AMOUNT * (sell_price - start_price)
    /\ (pc = "raised") =>
          /\ start_price = 0
          /\ params.min_start <= 0
          /\ DefinedData[1] = 0
    /\ (pc = "done") => ret # <<0, 0>>

\* min_start > 0: a series whose first price is 0 cents was not opened and
\* returned 0, though a later price of it is within the band
C29_Witness ==
    /\ pc = "done"
    /\ params.min_start > 0
    /\ DefinedData # <<>>
    /\ DefinedData[1] = 0
    /\ ~Entered
    /\ ret = <<0, 1>>
    /\ \E j \in 1..Len(data) : data[j] # None /\ InBand(data[j] * Scale, params)


====
